---- MODULE Spec2Model ----
(***************************************************************************)
(* A model of the fixed-capacity vector ArrayVec and of its consuming      *)
(* iterator IntoIter (src/src/lib.rs), together with the trait-based       *)
(* variant of the same container (src/src/arrayvec.rs) and the earlier     *)
(* const-generic variant (src/src/arrayv.rs), which has no iterator.       *)
(*                                                                         *)
(* Values are identified by the integers 1..MaxId; a storage slot holds    *)
(* the bit pattern of a value (its identifier) or Uninit.  Reading a slot  *)
(* with ptr::read leaves the bit pattern behind, so ownership is tracked   *)
(* apart from the storage: entered is the set of values written into the   *)
(* vector, handed[v] counts how often v was given to the caller by value,  *)
(* and drops[v] counts how often the destructor of v was run.              *)
(*                                                                         *)
(* Every operation is one action.  The steps it performs, in program       *)
(* order, are recorded in last.trace, and last.pre is the state it began   *)
(* in.                                                                     *)
(***************************************************************************)
EXTENDS Integers, Sequences, FiniteSets, TLC

\* Largest capacity (const parameter N of ArrayVec) that is explored.
MaxCap == 3
\* Number of distinct values that are ever created.
MaxId == 4
\* Longest source sequence given to extend / try_extend_from_slice.
MaxSrc == 4

Uninit == 0
NoPanic == -1
Ids == 1..MaxId
Variants == {"lib", "arrayvec"}
AllVariants == Variants \cup {"arrayv"}

VARIABLES
    variant,  \* which source file's ArrayVec is running
    debug,    \* the build has debug assertions (debug_assert! is checked)
    N,        \* the capacity of the vector (fixed at construction)
    array,    \* ArrayVec.array : slot -> value bits or Uninit
    len,      \* ArrayVec.len
    index,    \* IntoIter.index
    phase,    \* "vec": live vector, "iter": moved into IntoIter, "dropped",
              \* "inner": consumed by into_inner and forgotten
    entered,  \* values that were written into the vector
    handed,   \* value -> number of times it was moved out to the caller
    drops,    \* value -> number of times its destructor was run
    ub,       \* a storage access fell outside the array or read Uninit bits
    nextId,   \* next fresh value
    last,     \* the last operation: arguments, result, steps, state before
    ref,      \* reference bounded stack, kept while only push/pop were used
    moved,    \* the live elements of the vector that was moved into IntoIter
    inner     \* the array that into_inner returned

vars == <<variant, N, array, len, index, phase, entered, handed, drops, ub,
          nextId, last, ref, moved, inner, debug>>

Slots == 0..(N - 1)

Min(a, b) == IF a < b THEN a ELSE b

(***************************************************************************)
(* The machine state an operation works on.                                *)
(***************************************************************************)
Cur ==
    [array |-> array, len |-> len, index |-> index, entered |-> entered,
     handed |-> handed, drops |-> drops, ub |-> ub,
     trace |-> <<>>, unwind |-> FALSE, res |-> "unit", val |-> 0]

Ev(e, a, b, c) == [ev |-> e, a |-> a, b |-> b, c |-> c]

\* A step of straight-line code: it is skipped once a panic unwinds.
Log(m, e) == IF m.unwind THEN m ELSE [m EXCEPT !.trace = Append(@, e)]

\* The value a call returns; a call that unwinds returns none.
Ret(m, r, v) ==
    IF m.unwind THEN [m EXCEPT !.res = "panic", !.val = 0]
    ELSE [m EXCEPT !.res = r, !.val = v]

\* The functions that hold a debug assertion.
InSetLen == 1
InTake == 2
InPushUnchecked == 3

\* debug_assert!(cond) in function fn, on the value x: panics in a build
\* with debug assertions when cond is false.
debug_assert(m, cond, fn, x) ==
    IF m.unwind \/ ~debug \/ cond THEN m
    ELSE [m EXCEPT !.unwind = TRUE,
                   !.trace = Append(@, [ev |-> "assert_failed", a |-> fn,
                                        b |-> x, c |-> m.len])]

\* Returning a value to the caller by value (Some(elem)).
Give(m, v) ==
    IF m.unwind THEN Ret(m, "panic", 0) ELSE
    IF v \in Ids
    THEN [m EXCEPT !.res = "Some", !.val = v, !.handed[v] = @ + 1]
    ELSE [m EXCEPT !.res = "Some", !.val = v, !.ub = TRUE]

(***************************************************************************)
(* Capacity and introspection.                                             *)
(***************************************************************************)
capacity == N

is_empty(m) == m.len = 0

is_full(m) == m.len = capacity

\* usize subtraction; the width is scaled down to UsizeBits bits.
UsizeBits == 8
UsizeMod == 2 ^ UsizeBits
remaining_capacity(m) == (capacity - m.len) % UsizeMod

\* The condition of the debug assertion of set_len:
\* length <= capacity in lib.rs, length < capacity in arrayv.rs, and no
\* assertion in arrayvec.rs.
set_len_assertion(length) ==
    IF variant = "lib" THEN length <= capacity
    ELSE IF variant = "arrayv" THEN length < capacity
    ELSE TRUE

\* set_len.  Field b of the event is 1 iff the condition of the assertion
\* holds; a failed assertion panics before the length is stored.
set_len(m, length) ==
    IF m.unwind THEN m ELSE
    LET ok == set_len_assertion(length)
        a == debug_assert(m, ok, InSetLen, length) IN
    IF a.unwind THEN a
    ELSE Log([m EXCEPT !.len = length],
             Ev("set_len", length, IF ok THEN 1 ELSE 0, 0))

(***************************************************************************)
(* Raw storage primitives.                                                 *)
(***************************************************************************)
\* ptr::write(self.array.get_unchecked_mut(i).as_mut_ptr(), item)
ptr_write(m, i, item) ==
    IF m.unwind THEN m ELSE
    IF i \in Slots
    THEN Log([m EXCEPT !.array[i] = item, !.entered = @ \cup {item}],
             Ev("write", i, item, m.len))
    ELSE Log([m EXCEPT !.ub = TRUE], Ev("write", i, item, m.len))

\* The bits ptr::read finds in slot i.
slot_bits(m, i) == IF i \in Slots THEN m.array[i] ELSE Uninit

\* ArrayVec::take(index): ptr::read of the slot, which keeps its bits.
\* Field c of the event is len() at the moment of the call.
take(m, i) ==
    IF m.unwind THEN m ELSE
    LET a == debug_assert(m, i < m.len, InTake, i) IN
    IF a.unwind THEN a ELSE
    Log([m EXCEPT !.ub = @ \/ slot_bits(m, i) = Uninit],
        Ev("take", i, slot_bits(m, i), m.len))

\* ptr::replace(slot, MaybeUninit::uninit()).assume_init()
replace_uninit(m, i) ==
    IF m.unwind THEN m ELSE
    IF i \in Slots
    THEN Log([m EXCEPT !.array[i] = Uninit, !.ub = @ \/ m.array[i] = Uninit],
             Ev("replace", i, m.array[i], m.len))
    ELSE Log([m EXCEPT !.ub = TRUE], Ev("replace", i, Uninit, m.len))

\* An index or range [lo, hi) taken from the live-slice view (Deref /
\* DerefMut), whose length (field c) is len() at the moment of the access:
\* get_unchecked_mut, and the bounds-checked forms (self[a..], swap).
\* The unchecked form yields the addressed storage whatever the length of
\* the view is: it is pointer arithmetic inside the array.
view_unchecked(m, lo, hi) == Log(m, Ev("unchecked", lo, hi, m.len))

view_checked(m, lo, hi) ==
    IF m.unwind THEN m ELSE
    IF lo <= hi /\ hi <= m.len
    THEN Log(m, Ev("checked", lo, hi, m.len))
    ELSE [Log(m, Ev("checked", lo, hi, m.len)) EXCEPT !.unwind = TRUE]

\* The destructor of the value in slot i runs; it panics iff i = pslot.
drop_slot(m, i, pslot) ==
    LET v == slot_bits(m, i) IN
    IF v \in Ids
    THEN [m EXCEPT !.drops[v] = @ + 1, !.unwind = @ \/ i = pslot,
                   !.trace = Append(@, Ev("drop", i, v,
                                          IF i = pslot THEN 1 ELSE 0))]
    ELSE [m EXCEPT !.ub = TRUE, !.trace = Append(@, Ev("drop", i, v, 0))]

\* The drop glue of a slice visits the slots [lo, hi) in increasing order
\* and, when one destructor panics, still drops the remaining ones while
\* unwinding.
RECURSIVE drop_glue(_, _, _, _)
drop_glue(m, lo, hi, pslot) ==
    IF lo >= hi THEN m
    ELSE drop_glue(drop_slot(m, lo, pslot), lo + 1, hi, pslot)

\* ptr::drop_in_place(slice) on the slots [lo, hi)
drop_in_place(m, lo, hi, pslot) ==
    IF m.unwind THEN m ELSE drop_glue(m, lo, hi, pslot)

\* A function that unwinds returns no value.
Unwound(m) == IF m.unwind THEN Ret(m, "panic", 0) ELSE m

(***************************************************************************)
(* Insertion.                                                              *)
(***************************************************************************)
\* Mutant: the item is written to the first slot.
push_unchecked_front(m, item) ==
    LET l == m.len
        a == debug_assert(m, l < capacity, InPushUnchecked, l) IN
    set_len(ptr_write(a, 0, item), l + 1)

\* debug_assert!(len < capacity), ptr::write into slot len, set_len(len + 1)
push_unchecked(m, item) ==
    LET l == m.len
        a == debug_assert(m, l < capacity, InPushUnchecked, l) IN
    set_len(ptr_write(a, l, item), l + 1)

\* Mutant: the capacity test is off by one.
try_push_off_by_one(m, item) ==
    IF m.len <= capacity
    THEN Ret(push_unchecked(m, item), "Ok", 0)
    ELSE Ret(m, "Err", IF variant = "lib" THEN item ELSE 0)

\* Mutant: the error does not carry the rejected item.
try_push_loses_item(m, item) ==
    IF m.len < capacity
    THEN Ret(push_unchecked(m, item), "Ok", 0)
    ELSE Ret(m, "Err", 0)

\* lib.rs returns CapacityError::new(item), arrayvec.rs returns Err(()).
try_push(m, item) ==
    IF m.len < capacity
    THEN Ret(push_unchecked(m, item), "Ok", 0)
    ELSE Ret(m, "Err", IF variant = "lib" THEN item ELSE 0)

\* try_push(item).unwrap()
push(m, item) ==
    LET r == try_push(m, item) IN
    IF r.res = "Ok" THEN Ret(r, "unit", 0) ELSE Ret(r, "panic", 0)

\* Mutant: a forward element-by-element copy, which re-reads slots it has
\* already overwritten when the destination overlaps the source.
ptr_copy_forward(m, src, dst, count) ==
    IF m.unwind \/ count = 0 THEN m
    ELSE IF src + count <= N /\ dst + count <= N
    THEN Log([m EXCEPT !.array =
                 [i \in Slots |->
                     IF dst <= i /\ i < dst + count
                     THEN IF src < dst /\ dst < src + count
                          THEN m.array[src + ((i - dst) % (dst - src))]
                          ELSE m.array[i - dst + src]
                     ELSE m.array[i]]],
             Ev("copy", src, dst, count))
    ELSE Log([m EXCEPT !.ub = TRUE], Ev("copy", src, dst, count))

\* ptr::copy(src, dst, count) inside the array: a memmove, every source
\* slot is read before any destination slot is overwritten.
ptr_copy(m, src, dst, count) ==
    IF m.unwind \/ count = 0 THEN m
    ELSE IF src + count <= N /\ dst + count <= N
    THEN Log([m EXCEPT !.array =
                 [i \in Slots |-> IF dst <= i /\ i < dst + count
                                  THEN m.array[i - dst + src]
                                  ELSE m.array[i]]],
             Ev("copy", src, dst, count))
    ELSE Log([m EXCEPT !.ub = TRUE], Ev("copy", src, dst, count))

\* Mutant: the capacity is tested before the index.
try_insert_capacity_first(m, idx, item) ==
    IF is_full(m) THEN Ret(m, "Err", item)
    ELSE IF idx > m.len THEN Ret(m, "panic", 0)
    ELSE LET l == m.len IN
         Ret(set_len(ptr_write(ptr_copy(m, idx, idx + 1, l - idx), idx, item),
                     l + 1),
             "Ok", 0)

\* Mutant: the index len() is rejected.
try_insert_strict_index(m, idx, item) ==
    IF idx >= m.len THEN Ret(m, "panic", 0)
    ELSE IF is_full(m) THEN Ret(m, "Err", item)
    ELSE LET l == m.len IN
         Ret(set_len(ptr_write(ptr_copy(m, idx, idx + 1, l - idx), idx, item),
                     l + 1),
             "Ok", 0)

try_insert(m, idx, item) ==
    IF idx > m.len THEN Ret(m, "panic", 0)
    ELSE IF is_full(m) THEN Ret(m, "Err", item)
    ELSE LET l == m.len IN
         Ret(set_len(ptr_write(ptr_copy(m, idx, idx + 1, l - idx), idx, item),
                     l + 1),
             "Ok", 0)

\* try_insert(index, item).unwrap()
insert(m, idx, item) ==
    LET r == try_insert(m, idx, item) IN
    IF r.res = "Ok" THEN Ret(r, "unit", 0) ELSE Ret(r, "panic", 0)

\* ptr::copy_nonoverlapping(slice.as_ptr(), dst, slice_len)
copy_from_slice(m, dst, slice) ==
    IF m.unwind THEN m ELSE
    IF dst + Len(slice) <= N
    THEN Log([m EXCEPT !.array =
                 [i \in Slots |-> IF dst <= i /\ i < dst + Len(slice)
                                  THEN slice[i - dst + 1]
                                  ELSE m.array[i]],
              !.entered = @ \cup {slice[k] : k \in 1..Len(slice)}],
             Ev("copy_from", dst, Len(slice), m.len))
    ELSE Log([m EXCEPT !.ub = TRUE], Ev("copy_from", dst, Len(slice), m.len))

\* Mutant: the slice is compared with capacity().
try_extend_from_slice_vs_capacity(m, slice) ==
    IF capacity < Len(slice) THEN Ret(m, "Err", 0)
    ELSE LET self_len == m.len
             slice_len == Len(slice) IN
         Ret(set_len(copy_from_slice(m, self_len, slice),
                     self_len + slice_len),
             "Ok", 0)

try_extend_from_slice(m, slice) ==
    IF remaining_capacity(m) < Len(slice) THEN Ret(m, "Err", 0)
    ELSE LET self_len == m.len
             slice_len == Len(slice) IN
         Ret(set_len(copy_from_slice(m, self_len, slice),
                     self_len + slice_len),
             "Ok", 0)

\* iter.next() of the source, the k-th call: the caller's iterator is
\* arbitrary code, and its ppull-th call panics (ppull = 0: none does).
\* Field c of the event is the length at the moment of the call.
iter_next(m, src, k, ppull) ==
    IF k = ppull
    THEN [Log(m, Ev("next_panic", 0, k, m.len)) EXCEPT !.unwind = TRUE]
    ELSE Log(m, Ev("next", IF k <= Len(src) THEN src[k] ELSE 0, k, m.len))

\* Mutant: the length is stored once, after the loop.
RECURSIVE extend_loop_len_at_end(_, _, _, _, _, _)
extend_loop_len_at_end(m, dst, end, src, k, ppull) ==
    IF dst >= end
    THEN Log([m EXCEPT !.len = dst], Ev("len", dst, 0, 0))
    ELSE LET n == iter_next(m, src, k, ppull) IN
         IF n.unwind THEN n
         ELSE IF k <= Len(src)
         THEN extend_loop_len_at_end(ptr_write(n, dst, src[k]),
                                     dst + 1, end, src, k + 1, ppull)
         ELSE Log([n EXCEPT !.len = dst], Ev("len", dst, 0, 0))

\* Mutant: the length is incremented before the item is pulled.
RECURSIVE extend_loop_len_first(_, _, _, _, _, _)
extend_loop_len_first(m, dst, end, src, k, ppull) ==
    IF dst >= end THEN m
    ELSE IF k <= Len(src) \/ k = ppull
    THEN LET l == Log([m EXCEPT !.len = @ + 1], Ev("len", m.len + 1, 0, 0))
             n == iter_next(l, src, k, ppull) IN
         IF n.unwind THEN n
         ELSE extend_loop_len_first(ptr_write(n, dst, src[k]),
                                    dst + 1, end, src, k + 1, ppull)
    ELSE iter_next(m, src, k, ppull)

\* One round of the loop of extend over the slots [dst, end): iter.next()
\* is the k-th item of src or None, or it panics; an item is written to
\* dst and the length is incremented, None leaves the loop.
RECURSIVE extend_loop(_, _, _, _, _, _)
extend_loop(m, dst, end, src, k, ppull) ==
    IF dst >= end THEN m
    ELSE LET n == iter_next(m, src, k, ppull) IN
         IF n.unwind THEN n
         ELSE IF k <= Len(src)
         THEN LET w == ptr_write(n, dst, src[k])
              IN extend_loop(Log([w EXCEPT !.len = @ + 1],
                                 Ev("len", w.len + 1, 0, 0)),
                             dst + 1, end, src, k + 1, ppull)
         ELSE n

\* Mutant: the loop runs over one slot more than there is room.
extend_one_more(m, src, ppull) ==
    LET tk == remaining_capacity(m) + 1 IN
    Unwound(extend_loop(m, m.len, m.len + tk, src, 1, ppull))

\* Mutant: the loop runs over capacity() slots.
extend_whole_capacity(m, src, ppull) ==
    LET tk == capacity IN
    Unwound(extend_loop(m, m.len, m.len + tk, src, 1, ppull))

\* Extend::extend: the slots len .. len + remaining_capacity() are fixed
\* before the loop starts.
extend(m, src, ppull) ==
    LET tk == remaining_capacity(m) IN
    Unwound(extend_loop(m, m.len, m.len + tk, src, 1, ppull))

\* ArrayVec::default(), with which from_iter starts.
Default(m) == [m EXCEPT !.array = [i \in Slots |-> Uninit], !.len = 0]

(***************************************************************************)
(* Removal.                                                                *)
(***************************************************************************)
\* Mutant: the length is not decremented.
pop_keeps_len(m) ==
    IF is_empty(m) THEN Ret(m, "None", 0)
    ELSE LET new_len == m.len - 1 IN
         IF variant = "lib"
         THEN Give(take(m, new_len), slot_bits(m, new_len))
         ELSE Give(replace_uninit(m, new_len), slot_bits(m, new_len))

\* Mutant: lib.rs sets the length before it calls take.
pop_len_first(m) ==
    IF is_empty(m) THEN Ret(m, "None", 0)
    ELSE LET new_len == m.len - 1 IN
         IF variant = "lib"
         THEN Give(take(set_len(m, new_len), new_len), slot_bits(m, new_len))
         ELSE Give(replace_uninit(set_len(m, new_len), new_len),
                   slot_bits(m, new_len))

\* lib.rs: take(new_len) and then set_len(new_len);
\* arrayvec.rs and arrayv.rs: set_len(new_len) and then ptr::replace.
pop(m) ==
    IF is_empty(m) THEN Ret(m, "None", 0)
    ELSE LET new_len == m.len - 1 IN
         IF variant = "lib"
         THEN Give(set_len(take(m, new_len), new_len), slot_bits(m, new_len))
         ELSE Give(replace_uninit(set_len(m, new_len), new_len),
                   slot_bits(m, new_len))

\* <[T]>::swap(a, b) on the live-slice view, bounds-checked.
swap(m, a, b) ==
    LET c == view_checked(view_checked(m, a, a + 1), b, b + 1) IN
    IF c.unwind THEN c
    ELSE [c EXCEPT !.array = [i \in Slots |-> IF i = a THEN m.array[b]
                                               ELSE IF i = b THEN m.array[a]
                                               ELSE m.array[i]]]

\* Mutant: the swap is missing.
swap_pop_no_swap(m, idx) ==
    LET l == m.len IN
    IF idx >= l THEN Ret(m, "None", 0)
    ELSE pop(m)

swap_pop(m, idx) ==
    LET l == m.len IN
    IF idx >= l THEN Ret(m, "None", 0)
    ELSE pop(swap(m, idx, l - 1))

\* swap_pop(index).unwrap()
swap_remove(m, idx) ==
    LET r == swap_pop(m, idx) IN
    IF r.res = "Some" THEN r ELSE Ret(r, "panic", 0)

\* Mutant: the destructors run before the length is set.
truncate_drops_first(m, new_len, pslot) ==
    IF new_len < m.len
    THEN LET old_len == m.len IN
         Unwound(set_len(drop_in_place(view_checked(m, new_len, old_len),
                                       new_len, old_len, pslot),
                         new_len))
    ELSE m

\* Mutant: the test new_len < len() is missing.
truncate_unguarded(m, new_len, pslot) ==
    LET old_len == m.len IN
    Unwound(drop_in_place(view_unchecked(set_len(m, new_len), new_len, old_len),
                          new_len, old_len, pslot))

\* lib.rs: set_len(new_len), then the range new_len..old_len of the view;
\* arrayvec.rs: the checked range new_len.. of the view, then len = new_len;
\* arrayv.rs: the unchecked range new_len.. of the view, then
\* set_len(new_len).
truncate(m, new_len, pslot) ==
    IF new_len < m.len
    THEN LET old_len == m.len IN
         IF variant = "lib"
         THEN Unwound(drop_in_place(
                  view_unchecked(set_len(m, new_len), new_len, old_len),
                  new_len, old_len, pslot))
         ELSE IF variant = "arrayv"
         THEN Unwound(drop_in_place(
                  set_len(view_unchecked(m, new_len, m.len), new_len),
                  new_len, old_len, pslot))
         ELSE Unwound(drop_in_place(
                  Log([view_checked(m, new_len, m.len) EXCEPT !.len = new_len],
                      Ev("len", new_len, 0, 0)),
                  new_len, old_len, pslot))
    ELSE m

clear(m, pslot) == truncate(m, 0, pslot)

\* Drop for ArrayVec
drop_vec(m, pslot) == clear(m, pslot)

\* FromIterator::from_iter: ArrayVec::default() and then extend.  When the
\* source panics, the unwinding drops the local vector.
from_iter(m, src, ppull) ==
    LET e == extend(Default(m), src, ppull) IN
    IF e.unwind
    THEN Unwound([drop_vec([e EXCEPT !.unwind = FALSE], NoPanic)
                     EXCEPT !.unwind = TRUE])
    ELSE e

(***************************************************************************)
(* Conversion into the array.                                              *)
(***************************************************************************)
\* ptr::read of the storage as [T; N]: every slot is moved out.
read_array(m) ==
    Log([m EXCEPT !.handed = [v \in Ids |->
                      m.handed[v] + Cardinality({i \in Slots : m.array[i] = v})],
                  !.ub = @ \/ \E i \in Slots : m.array[i] = Uninit],
        Ev("read_array", 0, N, m.len))

\* The array that ptr::read finds in the storage.
ArrayOf(m) == [k \in 1..N |-> m.array[k - 1]]

\* Mutant: mem::forget(self) is missing, so that the vector is dropped at
\* the end of the call.
into_inner_no_forget(m) ==
    IF ~is_full(m) THEN Ret(m, "Err", 0)
    ELSE Ret(drop_vec(read_array(m), NoPanic), "Ok", 0)

\* into_inner: Err(self) unless the vector is full; otherwise the array is
\* read out of the storage and the vector is forgotten, not dropped.
into_inner(m) ==
    IF ~is_full(m) THEN Ret(m, "Err", 0)
    ELSE Ret(Log(read_array(m), Ev("forget", 0, 0, m.len)), "Ok", 0)

(***************************************************************************)
(* The consuming iterator IntoIter.                                        *)
(***************************************************************************)
\* IntoIterator::into_iter
into_iter(m) == [m EXCEPT !.index = 0]

\* Mutant: the front index is not advanced.
next_keeps_index(m) ==
    IF m.index = m.len THEN Ret(m, "None", 0)
    ELSE LET t == IF variant = "lib" THEN take(m, m.index)
                  ELSE replace_uninit(m, m.index) IN
         Give(t, slot_bits(m, m.index))

\* lib.rs: array.take(index); arrayvec.rs: ptr::replace of the slot.
next(m) ==
    IF m.index = m.len THEN Ret(m, "None", 0)
    ELSE LET t == IF variant = "lib" THEN take(m, m.index)
                  ELSE replace_uninit(m, m.index) IN
         Give(Log([t EXCEPT !.index = @ + 1], Ev("index", m.index + 1, 0, 0)),
              slot_bits(m, m.index))

\* Mutant: the iterator is taken to be exhausted when the vector is empty.
next_back_checks_empty(m) ==
    IF m.len = 0 THEN Ret(m, "None", 0)
    ELSE LET new_len == m.len - 1 IN
         IF variant = "lib"
         THEN Give(set_len(take(m, new_len), new_len), slot_bits(m, new_len))
         ELSE Give(replace_uninit(set_len(m, new_len), new_len),
                   slot_bits(m, new_len))

\* Mutant: the length is not decremented.
next_back_keeps_len(m) ==
    IF m.index = m.len THEN Ret(m, "None", 0)
    ELSE LET new_len == m.len - 1 IN
         IF variant = "lib"
         THEN Give(take(m, new_len), slot_bits(m, new_len))
         ELSE Give(replace_uninit(m, new_len), slot_bits(m, new_len))

next_back(m) ==
    IF m.index = m.len THEN Ret(m, "None", 0)
    ELSE LET new_len == m.len - 1 IN
         IF variant = "lib"
         THEN Give(set_len(take(m, new_len), new_len), slot_bits(m, new_len))
         ELSE Give(replace_uninit(set_len(m, new_len), new_len),
                   slot_bits(m, new_len))

\* Mutant: the front index is not subtracted.
size_hint_whole_len(m) == Ret(m, "hint", m.len)

\* size_hint: (len, Some(len)) with len = self.array.len() - self.index,
\* a usize subtraction.
size_hint(m) == Ret(m, "hint", (m.len - m.index) % UsizeMod)

\* Mutant: the length of the wrapped vector is not set to 0.
drop_iter_keeps_len(m, pslot) ==
    LET l == m.len
        idx == m.index
        d == drop_in_place(view_checked(m, idx, l), idx, l, pslot)
        f == drop_vec([d EXCEPT !.unwind = FALSE], NoPanic)
    IN Unwound([f EXCEPT !.unwind = @ \/ d.unwind])

\* Drop for IntoIter: set_len(0), then drop_in_place of index..len, which
\* lib.rs takes as a range of the view and arrayvec.rs builds from the
\* address of slot index and the count len - index; the wrapped vector is
\* dropped after that (also when a destructor panicked).
drop_iter(m, pslot) ==
    LET l == m.len
        idx == m.index
        z == set_len(m, 0)
        d == IF variant = "lib"
             THEN drop_in_place(view_unchecked(z, idx, l), idx, l, pslot)
             ELSE drop_in_place(view_unchecked(z, idx, idx + 1),
                                idx, idx + ((l - idx) % UsizeMod), pslot)
        f == drop_vec([d EXCEPT !.unwind = FALSE], NoPanic)
    IN Unwound([f EXCEPT !.unwind = @ \/ d.unwind])

(***************************************************************************)
(* The reference bounded stack that property C3 compares the vector with. *)
(* It is not part of the program: it is updated by push and pop from its   *)
(* own definition of a stack and is switched off by every other operation. *)
(***************************************************************************)
RefInit == [pure |-> TRUE, stack |-> <<>>, pushes |-> 0, pops |-> 0,
            res |-> "unit", val |-> 0]

RefOff == [pure |-> FALSE, stack |-> <<>>, pushes |-> 0, pops |-> 0,
           res |-> "unit", val |-> 0]

RefPush(r, item) ==
    IF ~r.pure THEN r
    ELSE IF Len(r.stack) < N
    THEN [r EXCEPT !.stack = Append(@, item), !.pushes = @ + 1,
                   !.res = "Ok", !.val = 0]
    ELSE [r EXCEPT !.res = "Err", !.val = 0]

RefPop(r) ==
    IF ~r.pure THEN r
    ELSE IF r.stack = <<>>
    THEN [r EXCEPT !.res = "None", !.val = 0]
    ELSE [r EXCEPT !.stack = SubSeq(@, 1, Len(@) - 1), !.pops = @ + 1,
                   !.res = "Some", !.val = r.stack[Len(r.stack)]]

(***************************************************************************)
(* Actions.                                                                *)
(***************************************************************************)
Pre == [array |-> array, len |-> len, index |-> index]

Commit(m, op, a, item, used) ==
    /\ array' = m.array
    /\ len' = m.len
    /\ index' = m.index
    /\ entered' = m.entered
    /\ handed' = m.handed
    /\ drops' = m.drops
    /\ ub' = m.ub
    /\ nextId' = nextId + used
    /\ last' = [op |-> op, a |-> a, item |-> item, res |-> m.res,
                val |-> m.val, trace |-> m.trace, pre |-> Pre]
    /\ UNCHANGED <<variant, N, debug>>

LiveSlice == [k \in 1..len |-> array[k - 1]]

PreSlice == [k \in 1..last.pre.len |-> last.pre.array[k - 1]]

\* A new, empty vector of one of the variants V, in a build with or
\* without debug assertions.
InitOf(V) ==
    /\ variant \in V
    /\ debug \in BOOLEAN
    /\ inner = <<>>
    /\ N \in 0..MaxCap
    /\ array = [i \in 0..(N - 1) |-> Uninit]
    /\ len = 0
    /\ index = 0
    /\ phase = "vec"
    /\ entered = {}
    /\ handed = [v \in Ids |-> 0]
    /\ drops = [v \in Ids |-> 0]
    /\ ub = FALSE
    /\ nextId = 1
    /\ last = [op |-> "new", a |-> 0, item |-> 0, res |-> "unit", val |-> 0,
               trace |-> <<>>,
               pre |-> [array |-> [i \in 0..(N - 1) |-> Uninit], len |-> 0,
                        index |-> 0]]
    /\ ref = RefInit
    /\ moved = <<>>

Init == InitOf(Variants)

InitV == InitOf(AllVariants)

TryPush ==
    /\ phase = "vec"
    /\ nextId \in Ids
    /\ Commit(try_push(Cur, nextId), "try_push", 0, nextId, 1)
    /\ ref' = RefPush(ref, nextId)
    /\ UNCHANGED <<phase, moved, inner>>

Push ==
    /\ phase = "vec"
    /\ nextId \in Ids
    /\ Commit(push(Cur, nextId), "push", 0, nextId, 1)
    /\ ref' = RefPush(ref, nextId)
    /\ UNCHANGED <<phase, moved, inner>>

Pop ==
    /\ phase = "vec"
    /\ Commit(pop(Cur), "pop", 0, 0, 0)
    /\ ref' = RefPop(ref)
    /\ UNCHANGED <<phase, moved, inner>>

PanicSlots(lo, hi) == {NoPanic} \cup {i \in Slots : lo <= i /\ i < hi}

Truncate ==
    /\ phase = "vec"
    /\ \E new_len \in 0..(N + 1) : \E pslot \in PanicSlots(new_len, len) :
          Commit(truncate(Cur, new_len, pslot), "truncate", new_len, 0, 0)
    /\ ref' = RefOff
    /\ UNCHANGED <<phase, moved, inner>>

Clear ==
    /\ phase = "vec"
    /\ \E pslot \in PanicSlots(0, len) :
          Commit(clear(Cur, pslot), "clear", 0, 0, 0)
    /\ ref' = RefOff
    /\ UNCHANGED <<phase, moved, inner>>

DropVec ==
    /\ phase = "vec"
    /\ \E pslot \in PanicSlots(0, len) :
          Commit(drop_vec(Cur, pslot), "drop", 0, 0, 0)
    /\ phase' = "dropped"
    /\ ref' = RefOff
    /\ UNCHANGED <<moved, inner>>

\* The operations below exist in lib.rs only.
FreshSeq(n) == [k \in 1..n |-> nextId + k - 1]

\* The number of items extend pulled out of its source.
Pulled(m) == Cardinality({k \in 1..Len(m.trace) :
                 m.trace[k].ev = "next" /\ m.trace[k].a # 0})

TryInsert ==
    /\ phase = "vec" /\ variant = "lib"
    /\ nextId \in Ids
    /\ \E idx \in 0..(N + 1) :
          Commit(try_insert(Cur, idx, nextId), "try_insert", idx, nextId, 1)
    /\ ref' = RefOff
    /\ UNCHANGED <<phase, moved, inner>>

Insert ==
    /\ phase = "vec" /\ variant = "lib"
    /\ nextId \in Ids
    /\ \E idx \in 0..(N + 1) :
          Commit(insert(Cur, idx, nextId), "insert", idx, nextId, 1)
    /\ ref' = RefOff
    /\ UNCHANGED <<phase, moved, inner>>

SwapPop ==
    /\ phase = "vec" /\ variant = "lib"
    /\ \E idx \in 0..N : Commit(swap_pop(Cur, idx), "swap_pop", idx, 0, 0)
    /\ ref' = RefOff
    /\ UNCHANGED <<phase, moved, inner>>

SwapRemove ==
    /\ phase = "vec" /\ variant = "lib"
    /\ \E idx \in 0..N :
          Commit(swap_remove(Cur, idx), "swap_remove", idx, 0, 0)
    /\ ref' = RefOff
    /\ UNCHANGED <<phase, moved, inner>>

TryExtendFromSlice ==
    /\ phase = "vec" /\ variant = "lib"
    /\ \E s \in 0..MaxSrc :
          /\ nextId + s - 1 <= MaxId
          /\ Commit(try_extend_from_slice(Cur, FreshSeq(s)),
                    "try_extend_from_slice", s, nextId, s)
    /\ ref' = RefOff
    /\ UNCHANGED <<phase, moved, inner>>

Extend ==
    /\ phase = "vec" /\ variant = "lib"
    /\ \E s \in 0..MaxSrc :
          /\ nextId + s - 1 <= MaxId
          /\ \E ppull \in 0..(s + 1) :
                LET m == extend(Cur, FreshSeq(s), ppull) IN
                Commit(m, "extend", s, nextId, Pulled(m))
    /\ ref' = RefOff
    /\ UNCHANGED <<phase, moved, inner>>

FromIter ==
    /\ phase = "vec" /\ variant = "lib"
    /\ last.op = "new"
    /\ \E s \in 0..MaxSrc :
          /\ nextId + s - 1 <= MaxId
          /\ \E ppull \in 0..(s + 1) :
                LET m == from_iter(Cur, FreshSeq(s), ppull) IN
                /\ Commit(m, "from_iter", s, nextId, Pulled(m))
                /\ phase' = IF m.res = "panic" THEN "dropped" ELSE "vec"
    /\ ref' = RefOff
    /\ UNCHANGED <<moved, inner>>

\* arrayv.rs declares IntoIter but implements nothing for it.
IntoIter ==
    /\ phase = "vec" /\ variant \in Variants
    /\ Commit(into_iter(Cur), "into_iter", 0, 0, 0)
    /\ phase' = "iter"
    /\ moved' = LiveSlice
    /\ ref' = RefOff
    /\ UNCHANGED inner

\* size_hint is implemented for the iterator of lib.rs only.
SizeHint ==
    /\ phase = "iter" /\ variant = "lib"
    /\ Commit(size_hint(Cur), "size_hint", 0, 0, 0)
    /\ UNCHANGED <<phase, moved, inner, ref>>

IntoInner ==
    /\ phase = "vec" /\ variant = "lib"
    /\ LET m == into_inner(Cur) IN
          /\ Commit(m, "into_inner", 0, 0, 0)
          /\ phase' = (IF m.res = "Ok" THEN "inner" ELSE "vec")
          /\ inner' = (IF m.res = "Ok" THEN ArrayOf(Cur) ELSE inner)
    /\ ref' = RefOff
    /\ UNCHANGED moved

IterNext ==
    /\ phase = "iter"
    /\ Commit(next(Cur), "next", 0, 0, 0)
    /\ UNCHANGED <<phase, moved, inner, ref>>

IterNextBack ==
    /\ phase = "iter"
    /\ Commit(next_back(Cur), "next_back", 0, 0, 0)
    /\ UNCHANGED <<phase, moved, inner, ref>>

DropIter ==
    /\ phase = "iter"
    /\ \E pslot \in PanicSlots(index, len) :
          Commit(drop_iter(Cur, pslot), "drop_iter", 0, 0, 0)
    /\ phase' = "dropped"
    /\ UNCHANGED <<ref, moved, inner>>

Next ==
    \/ TryPush
    \/ Push
    \/ Pop
    \/ Truncate
    \/ Clear
    \/ DropVec
    \/ TryInsert
    \/ Insert
    \/ SwapPop
    \/ SwapRemove
    \/ TryExtendFromSlice
    \/ Extend
    \/ FromIter
    \/ IntoIter
    \/ IterNext
    \/ IterNextBack
    \/ DropIter
    \/ SizeHint
    \/ IntoInner

Spec == Init /\ [][Next]_vars

\* The same operations on all three variants of the container.
SpecV == InitV /\ [][Next]_vars

(***************************************************************************)
(* Properties.                                                             *)
(***************************************************************************)
\* Slot i holds a live value: a value that entered the vector and was
\* neither moved out to the caller nor destroyed.
Live(i) ==
    /\ array[i] \in Ids
    /\ array[i] \in entered
    /\ handed[array[i]] = 0
    /\ drops[array[i]] = 0

Range(f) == {f[x] : x \in DOMAIN f}

\* The events of one kind in a trace, in order.
EventsOf(t, kind) == SelectSeq(t, LAMBDA e : e.ev = kind)

\* The events of one kind in the trace of the last operation.
Events(kind) == EventsOf(last.trace, kind)

\* The source of the last extend or from_iter panicked.
SourcePanicked == Events("next_panic") # <<>>

\* The last operation ended with the drop of the vector: the drop itself,
\* or a from_iter that unwinds and drops the vector it was building.
EndsInDrop == last.op = "drop" \/ (last.op = "from_iter" /\ SourcePanicked)

\* The destructors that ran in trace t are those of the slots [lo, hi) of
\* storage a, in increasing order, each once.
DroppedExactly(t, a, lo, hi) ==
    LET d == EventsOf(t, "drop") IN
    /\ Len(d) = (IF hi > lo THEN hi - lo ELSE 0)
    /\ \A k \in 1..Len(d) : d[k].a = lo + k - 1 /\ d[k].b = a[lo + k - 1]

VecOps == {"try_push", "push", "try_insert", "insert", "pop", "swap_pop",
           "swap_remove", "truncate", "clear", "extend", "from_iter",
           "try_extend_from_slice"}

\* C1: after any sequence of the safe vector operations on a vector of
\* capacity N that started empty, 0 <= len <= N, exactly the slots [0, len)
\* hold live values (each a different one) and the slots [len, N) hold
\* none, no storage access left the array, and remaining_capacity() is
\* N - len without underflow.
C1_LengthAndLiveSlots ==
    phase = "vec" =>
        /\ 0 <= len /\ len <= N
        /\ \A i \in Slots : Live(i) <=> i < len
        /\ \A i, j \in Slots : (i < j /\ j < len) => array[i] # array[j]
        /\ ~ub
        /\ remaining_capacity(Cur) = N - len

\* A vector that holds a stale bit pattern beyond its length after pushes,
\* pops and an insert.
C1_Witness ==
    /\ phase = "vec" /\ N >= 3 /\ len = 2
    /\ last.op = "try_insert" /\ last.res = "Ok"
    /\ array[2] \in Ids

\* The values the vector owns at the moment.
Owned == IF phase = "vec" THEN Range(LiveSlice)
         ELSE IF phase = "iter"
              THEN {array[i] : i \in {j \in Slots : index <= j /\ j < len}}
              ELSE {}

\* C2: every value that entered the vector is, at every moment, either
\* still owned by the vector or was handed back to the caller exactly once
\* or destroyed exactly once, never both and never twice; values that did
\* not enter are neither handed back nor destroyed by the vector; after the
\* drop of the vector every value that entered was handed back once or
\* destroyed once.  Only pop and swap_remove hand a value back and only
\* truncate, clear and the drop destroy one.
C2_EachValueOnce ==
    /\ \A v \in Ids :
          /\ handed[v] + drops[v] <= 1
          /\ v \notin entered => handed[v] + drops[v] = 0
          /\ (v \in entered /\ phase = "vec") =>
                 (handed[v] + drops[v] = 0 <=> v \in Owned)
    /\ EndsInDrop =>
          /\ phase = "dropped"
          /\ \A v \in entered : handed[v] + drops[v] = 1
    /\ (last.op \in VecOps \ {"truncate", "clear"} /\ ~EndsInDrop) =>
          Events("drop") = <<>>
    /\ last.op \in VecOps \ {"pop", "swap_pop", "swap_remove"} =>
          last.res # "Some"

\* The vector is dropped while it holds a value, after one value was handed
\* back and another one was destroyed by an earlier operation.
C2_Witness ==
    /\ last.op = "drop" /\ phase = "dropped"
    /\ Len(Events("drop")) >= 1
    /\ \E v \in entered : handed[v] = 1
    /\ \E v \in entered :
          drops[v] = 1 /\ \A k \in 1..Len(last.trace) : last.trace[k].b # v

\* C3: as long as only push and pop were used, the vector is the bounded
\* stack: len() is the number of successful pushes minus the number of pops
\* that returned a value, the live slice is the reference stack from bottom
\* to top, a push succeeds exactly when the reference stack has room, and
\* pop returns what the reference stack returns (its top, or None).
C3_BoundedStack ==
    ref.pure =>
        /\ len = ref.pushes - ref.pops
        /\ LiveSlice = ref.stack
        /\ last.op = "pop" => last.res = ref.res /\ last.val = ref.val
        /\ last.op = "try_push" => last.res = ref.res
        /\ last.op = "push" =>
              last.res = (IF ref.res = "Ok" THEN "unit" ELSE "panic")

\* The second pop of a push/pop sequence returns a value and leaves one.
C3_Witness ==
    /\ ref.pure /\ last.op = "pop" /\ last.res = "Some"
    /\ ref.pushes >= 3 /\ ref.pops >= 2 /\ len >= 1

\* C4: try_push on a full vector returns an error, which in lib.rs carries
\* the item that was passed in, and leaves the length at N and the storage
\* unchanged; try_push on a vector that is not full returns Ok.
C4_TryPushFull ==
    last.op = "try_push" =>
        IF last.pre.len = N
        THEN /\ last.res = "Err"
             /\ variant = "lib" => last.val = last.item
             /\ len = N
             /\ array = last.pre.array
             /\ last.item \notin entered
        ELSE last.res = "Ok"

\* A try_push of lib.rs on a full vector of capacity at least 2.
C4_Witness ==
    /\ last.op = "try_push" /\ variant = "lib"
    /\ N >= 2 /\ last.pre.len = N /\ last.res = "Err"

\* C5: the drop of a consuming iterator sets the length of the wrapped
\* vector to 0 first and then destroys exactly the elements at the
\* positions [index, len) as they were before the drop, each once; every
\* element of the vector that was moved into the iterator is then either
\* yielded once or destroyed once, never both, and the drop of the wrapped
\* vector adds no destructor call.
C5_IterDrop ==
    last.op = "drop_iter" =>
        /\ Len(last.trace) >= 1
        /\ last.trace[1].ev = "set_len" /\ last.trace[1].a = 0
        /\ DroppedExactly(last.trace, last.pre.array,
                          last.pre.index, last.pre.len)
        /\ \A k \in 1..Len(moved) :
              /\ handed[moved[k]] + drops[moved[k]] = 1
              /\ drops[moved[k]] = 1 <=>
                    (last.pre.index < k /\ k <= last.pre.len)
        /\ \A v \in Ids : handed[v] + drops[v] <= 1
        /\ len = 0
        /\ ~ub

\* An iterator dropped after a front and a back retrieval with an element
\* still not yielded.
C5_Witness ==
    /\ last.op = "drop_iter"
    /\ last.pre.index >= 1
    /\ last.pre.len < Len(moved)
    /\ last.pre.len - last.pre.index >= 1

\* C6: for the vector v moved into the iterator, a front retrieval with
\* index < len yields v[index] and advances index, a back retrieval with
\* index < len yields v[len - 1] and shrinks len, so the k-th successful
\* front retrieval yields v[k-1] and the k-th successful back retrieval
\* yields v[L-k]; both yield nothing, and change nothing, exactly when
\* index = len; the elements yielded so far are v[0..index) and v[len..L),
\* each yielded once.
C6_IterOrder ==
    /\ last.op = "into_iter" =>
          index = 0 /\ moved = PreSlice /\ len = Len(moved)
    /\ last.op = "next" =>
          IF last.pre.index = last.pre.len
          THEN last.res = "None" /\ index = last.pre.index
               /\ len = last.pre.len
          ELSE last.res = "Some" /\ last.val = moved[last.pre.index + 1]
               /\ index = last.pre.index + 1 /\ len = last.pre.len
    /\ last.op = "next_back" =>
          IF last.pre.index = last.pre.len
          THEN last.res = "None" /\ index = last.pre.index
               /\ len = last.pre.len
          ELSE last.res = "Some" /\ last.val = moved[last.pre.len]
               /\ index = last.pre.index /\ len = last.pre.len - 1
    /\ phase = "iter" =>
          /\ index <= len /\ len <= Len(moved)
          /\ \A k \in 1..Len(moved) :
                handed[moved[k]] = (IF k <= index \/ k > len THEN 1 ELSE 0)

\* Three elements, then front, back, back in some order and a front
\* retrieval that yields nothing.
C6_Witness ==
    /\ phase = "iter" /\ Len(moved) = 3
    /\ last.op = "next" /\ last.res = "None"
    /\ index = 1 /\ len = 1

\* The length is set to new_len in trace t before the first destructor.
LenSetBeforeDrops(t, new_len) ==
    \E j \in 1..Len(t) :
        /\ t[j].ev \in {"set_len", "len"} /\ t[j].a = new_len
        /\ \A k \in 1..Len(t) : t[k].ev = "drop" => j < k

C7_Ordered ==
    /\ (last.op = "truncate" /\ last.a < last.pre.len) =>
          /\ len = last.a
          /\ LenSetBeforeDrops(last.trace, last.a)
          /\ DroppedExactly(last.trace, last.pre.array, last.a, last.pre.len)
          /\ \A i \in last.a..(last.pre.len - 1) :
                drops[last.pre.array[i]] = 1
    /\ \A v \in Ids : drops[v] <= 1

C7_DropAfterPanic ==
    (last.op = "truncate" /\ last.res = "panic" /\ last'.op = "drop") =>
        DroppedExactly(last'.trace, array, 0, last.a)

\* C7: truncate(new_len) with new_len < len() sets the length to new_len
\* before the first destructor of the slots [new_len, old_len) runs and
\* runs the destructor of each of these slots exactly once, also when one
\* of them panics; a drop of the vector that follows a truncate whose
\* destructor panicked destroys exactly the slots [0, new_len); no value is
\* ever destroyed twice.
C7_TruncateOrder == [](C7_Ordered) /\ [][C7_DropAfterPanic]_vars

\* A truncate that excises two values and whose first destructor panics.
C7_Witness ==
    /\ last.op = "truncate" /\ last.res = "panic"
    /\ last.a >= 1 /\ last.pre.len - last.a >= 2
    /\ Events("drop")[1].c = 1

\* C8: after truncate(k) the length is min(k, previous_len) and the live
\* slice is the first min(k, previous_len) elements of the previous slice,
\* none of which was destroyed; exactly previous_len - min(k, previous_len)
\* destructors ran; when k >= previous_len nothing at all happened; clear()
\* does what truncate(0) does.
C8_Truncate ==
    last.op \in {"truncate", "clear"} =>
        LET k == IF last.op = "clear" THEN 0 ELSE last.a
            n == Min(k, last.pre.len) IN
        /\ len = n
        /\ LiveSlice = SubSeq(PreSlice, 1, n)
        /\ \A i \in 1..n : drops[PreSlice[i]] = 0
        /\ DroppedExactly(last.trace, last.pre.array, n, last.pre.len)
        /\ k >= last.pre.len =>
              array = last.pre.array /\ last.trace = <<>>
                  /\ last.res = "unit"

\* A truncate that keeps one element of three.
C8_Witness ==
    /\ last.op = "truncate" /\ last.a = 1 /\ last.pre.len = 3
    /\ len = 1 /\ last.res = "unit"

\* C9: extend and from_iter from a source that does not panic return
\* normally; with r the remaining capacity
\* before the call and a source of m items they pull exactly min(r, m)
\* items, never call the source more than r times, append the pulled items
\* in source order after the unchanged existing elements and end with
\* len = old_len + min(r, m).
C9_Extend ==
    (last.op \in {"extend", "from_iter"} /\ ~SourcePanicked) =>
        LET r == N - last.pre.len
            n == Min(r, last.a)
            pulls == Events("next") IN
        /\ last.res = "unit"
        /\ Len(SelectSeq(pulls, LAMBDA e : e.a # 0)) = n
        /\ \A k \in 1..Len(pulls) : pulls[k].b = k /\ k <= r
        /\ len = last.pre.len + n
        /\ LiveSlice = PreSlice \o [k \in 1..n |-> last.item + k - 1]
        /\ ~ub

\* An extend of a non-empty vector from a source that is longer than the
\* room that is left.
C9_Witness ==
    /\ last.op = "extend" /\ last.pre.len >= 1
    /\ N - last.pre.len >= 1 /\ last.a > N - last.pre.len

\* C10: insert and try_insert succeed when index <= len() < N, and a
\* successful one leaves old[0..index) ++ [item] ++ old[index..len) as the
\* live slice, with the length grown by one.
C10_Insert ==
    last.op \in {"try_insert", "insert"} =>
        /\ (last.a <= last.pre.len /\ last.pre.len < N) =>
              last.res = (IF last.op = "insert" THEN "unit" ELSE "Ok")
        /\ last.res \in {"Ok", "unit"} =>
              /\ last.a <= last.pre.len /\ last.pre.len < N
              /\ len = last.pre.len + 1
              /\ LiveSlice = SubSeq(PreSlice, 1, last.a) \o <<last.item>>
                                \o SubSeq(PreSlice, last.a + 1, last.pre.len)

\* An insert that moves at least two elements to the right.
C10_Witness ==
    /\ last.op = "try_insert" /\ last.res = "Ok"
    /\ last.pre.len - last.a >= 2

\* The last operation left the storage and the length as they were.
Untouched == array = last.pre.array /\ len = last.pre.len

\* C11: a failing insert leaves the vector as it was: with index > len()
\* try_insert and insert panic, also on a full vector; with index <= len()
\* on a full vector try_insert returns an error that carries the item and
\* insert panics; a failed call performed no step on the storage and the
\* item did not enter the vector.
C11_InsertFails ==
    last.op \in {"try_insert", "insert"} =>
        /\ last.a > last.pre.len => last.res = "panic"
        /\ (last.a <= last.pre.len /\ last.pre.len = N) =>
              IF last.op = "try_insert"
              THEN last.res = "Err" /\ last.val = last.item
              ELSE last.res = "panic"
        /\ last.res \notin {"Ok", "unit"} =>
              /\ Untouched
              /\ last.trace = <<>>
              /\ last.item \notin entered

\* try_insert on a full vector with an index beyond the length.
C11_Witness ==
    /\ last.op = "try_insert" /\ last.a > last.pre.len
    /\ last.pre.len = N /\ N >= 1 /\ last.res = "panic"

\* Two results of operations on the same state agree in what they return
\* and in the vector they leave.
SameOutcome(x, y) ==
    /\ x.res = y.res /\ x.val = y.val
    /\ x.len = y.len /\ x.array = y.array
    /\ x.entered = y.entered /\ x.ub = y.ub

\* C12: in every state of the vector of lib.rs, full or not, try_insert at
\* index len() returns what try_push returns and leaves the same length
\* and storage, insert at index len() does what push does, and try_insert
\* and insert at an index beyond len() panic.
C12_InsertAtLenIsPush ==
    (phase = "vec" /\ variant = "lib" /\ nextId \in Ids) =>
        /\ SameOutcome(try_insert(Cur, len, nextId), try_push(Cur, nextId))
        /\ SameOutcome(insert(Cur, len, nextId), push(Cur, nextId))
        /\ \A idx \in (len + 1)..(N + 1) :
              /\ try_insert(Cur, idx, nextId).res = "panic"
              /\ insert(Cur, idx, nextId).res = "panic"

\* A vector on which try_insert at index len() has just succeeded and that
\* is now full, so that both calls are compared on a full vector too.
C12_Witness ==
    /\ phase = "vec" /\ variant = "lib" /\ nextId \in Ids
    /\ last.op = "try_insert" /\ last.a = last.pre.len /\ last.res = "Ok"
    /\ len = N /\ N >= 2

\* C13: swap_pop(index) with index >= len() returns None and leaves the
\* vector untouched, and swap_remove panics; with index < len() both return
\* the value that was at index, the length goes down by one, the former
\* last element is at position index (unless index was the last position)
\* and every other element is where it was.
C13_SwapPop ==
    last.op \in {"swap_pop", "swap_remove"} =>
        IF last.a >= last.pre.len
        THEN /\ last.res = (IF last.op = "swap_pop" THEN "None" ELSE "panic")
             /\ Untouched
        ELSE /\ last.res = "Some"
             /\ last.val = last.pre.array[last.a]
             /\ len = last.pre.len - 1
             /\ \A i \in 0..(len - 1) :
                   array[i] = (IF i = last.a
                               THEN last.pre.array[last.pre.len - 1]
                               ELSE last.pre.array[i])

\* The first of three elements is removed and the last one takes its place.
C13_Witness ==
    /\ last.op = "swap_pop" /\ last.res = "Some"
    /\ last.a = 0 /\ last.pre.len = 3
    /\ array[0] = last.pre.array[2]

\* C14: into_inner on a full vector returns Ok with the array of the N
\* values of the vector in their order, runs no destructor and leaves
\* nothing that could run one later: the values are moved out once and the
\* vector is forgotten; into_inner on a vector that is not full returns the
\* vector with the same length and the same storage.
C14_IntoInner ==
    /\ last.op = "into_inner" =>
          IF last.pre.len = N
          THEN /\ last.res = "Ok"
               /\ phase = "inner"
               /\ inner = PreSlice /\ Len(inner) = N
               /\ Events("drop") = <<>>
          ELSE /\ last.res = "Err"
               /\ phase = "vec"
               /\ Untouched
               /\ LiveSlice = PreSlice
               /\ last.trace = <<>>
    /\ phase = "inner" =>
          \A k \in 1..Len(inner) :
              handed[inner[k]] = 1 /\ drops[inner[k]] = 0

\* into_inner on a full vector of two or more values.
C14_Witness ==
    /\ last.op = "into_inner" /\ last.res = "Ok"
    /\ N >= 2 /\ Len(inner) = N

\* C15: for N = 0 the vector is always empty and full, try_push always
\* returns an error, extend and from_iter leave the length at 0 and never
\* call the source, and no destructor ever runs, in particular not in the
\* drop of the vector.
C15_ZeroCapacity ==
    N = 0 =>
        /\ len = 0 /\ is_full(Cur) /\ is_empty(Cur)
        /\ entered = {}
        /\ last.op = "try_push" => last.res = "Err"
        /\ last.op = "push" => last.res = "panic"
        /\ last.op \in {"extend", "from_iter"} =>
              Events("next") = <<>> /\ last.res = "unit"
        /\ Events("drop") = <<>>
        /\ \A v \in Ids : drops[v] = 0
        /\ ~ub

\* A zero-capacity vector built from a source that is not empty.
C15_Witness ==
    /\ N = 0 /\ last.op = "from_iter" /\ last.a >= 1

\* C16: try_extend_from_slice with a slice longer than the remaining
\* capacity returns an error without any step on the storage; with a slice
\* of s <= remaining_capacity() elements it returns Ok, the live slice is
\* the previous one followed by the s elements in order and the length is
\* old_len + s.
C16_ExtendFromSlice ==
    last.op = "try_extend_from_slice" =>
        IF last.a > N - last.pre.len
        THEN /\ last.res = "Err"
             /\ Untouched
             /\ last.trace = <<>>
             /\ \A k \in 1..last.a : (last.item + k - 1) \notin entered
        ELSE /\ last.res = "Ok"
             /\ len = last.pre.len + last.a
             /\ LiveSlice = PreSlice \o [k \in 1..last.a |-> last.item + k - 1]
             /\ ~ub

\* Two elements are copied behind an element that was there.
C16_Witness ==
    /\ last.op = "try_extend_from_slice" /\ last.res = "Ok"
    /\ last.a >= 2 /\ last.pre.len >= 1

\* In trace t the length is set to l before slot l is read or emptied.
LenSetBeforeRead(t, l) ==
    \E j, k \in 1..Len(t) :
        /\ j < k
        /\ t[j].ev = "set_len" /\ t[j].a = l
        /\ t[k].ev \in {"take", "replace"} /\ t[k].a = l

\* In trace t slot l is read while the length is still l + 1, and the
\* length is set to l after that.
ReadBeforeLenSet(t, l) ==
    \E j, k \in 1..Len(t) :
        /\ j < k
        /\ t[j].ev = "take" /\ t[j].a = l /\ t[j].c = l + 1
        /\ t[k].ev = "set_len" /\ t[k].a = l

PopOfEmpty == last.res = "None" /\ Untouched /\ last.trace = <<>>

PopReturnsLast ==
    /\ last.res = "Some"
    /\ last.val = last.pre.array[last.pre.len - 1]
    /\ len = last.pre.len - 1

\* C17 as stated: in every variant pop on a vector that is not empty sets
\* the length first and only then takes the value out of the old last
\* slot; pop on an empty vector yields nothing and changes nothing.
C17_LengthFirst ==
    last.op = "pop" =>
        IF last.pre.len = 0 THEN PopOfEmpty
        ELSE PopReturnsLast
             /\ LenSetBeforeRead(last.trace, last.pre.len - 1)

\* C17, amended: pop on a vector that is not empty returns the value of the
\* old last slot and leaves the length one smaller; arrayvec.rs and
\* arrayv.rs set the length first and then empty the slot, lib.rs reads the
\* slot first, while the length still covers it, and then sets the length;
\* pop on an empty vector yields nothing and changes nothing.
C17_PopOrder ==
    last.op = "pop" =>
        IF last.pre.len = 0 THEN PopOfEmpty
        ELSE /\ PopReturnsLast
             /\ IF variant = "lib"
                THEN ReadBeforeLenSet(last.trace, last.pre.len - 1)
                ELSE LenSetBeforeRead(last.trace, last.pre.len - 1)
                     /\ array[last.pre.len - 1] = Uninit

\* A pop of lib.rs on a vector of two or more values.
C17_Witness ==
    /\ last.op = "pop" /\ variant = "lib"
    /\ last.res = "Some" /\ last.pre.len >= 2

\* The elements of the moved vector that were not yielded yet.
NotYielded == {k \in 1..Len(moved) : handed[moved[k]] = 0}

\* What size_hint reports in the state before the last operation.
PreHint == size_hint([Cur EXCEPT !.len = last.pre.len,
                                 !.index = last.pre.index]).val

\* C18: in every state of the consuming iterator index <= len; size_hint
\* of lib.rs reports len - index, which does not underflow, changes nothing
\* and is the number of elements not yielded yet; a retrieval from either
\* end succeeds exactly when that number is positive and then lowers it by
\* exactly one, so it is the number of retrievals that will still succeed.
C18_SizeHint ==
    phase = "iter" =>
        /\ index <= len
        /\ variant = "lib" =>
              /\ size_hint(Cur).res = "hint"
              /\ size_hint(Cur).val = len - index
              /\ size_hint(Cur).val = Cardinality(NotYielded)
              /\ last.op = "size_hint" =>
                    /\ last.res = "hint" /\ last.val = len - index
                    /\ Untouched /\ index = last.pre.index
                    /\ last.trace = <<>>
              /\ last.op \in {"next", "next_back"} =>
                    /\ last.res = "Some" <=> PreHint > 0
                    /\ last.res = "Some" => size_hint(Cur).val = PreHint - 1
                    /\ last.res = "None" => size_hint(Cur).val = PreHint

\* size_hint after a front and a back retrieval, with an element left.
C18_Witness ==
    /\ phase = "iter" /\ last.op = "size_hint"
    /\ index >= 1 /\ len < Len(moved) /\ last.val >= 1

C19_Counted ==
    phase = "iter" =>
        /\ Len(moved) - Cardinality(NotYielded) = index + (Len(moved) - len)
        /\ index = len => NotYielded = {}
        /\ last.op \in {"next", "next_back"} =>
              /\ last.res = "Some" <=> last.pre.index < last.pre.len
              /\ last.pre.index = last.pre.len =>
                    /\ last.res = "None"
                    /\ Untouched /\ index = last.pre.index
                    /\ last.trace = <<>>

C19_StaysExhausted ==
    (phase = "iter" /\ index = len /\ phase' = "iter") =>
        /\ index' = index /\ len' = len
        /\ handed' = handed /\ array' = array
        /\ last'.op \in {"next", "next_back"} => last'.res = "None"

\* C19: the successful retrievals are as many as index plus the elements
\* taken from the back, a retrieval succeeds exactly when index < len, so
\* that all L elements and no more are yielded; once index = len every
\* next and next_back yields nothing and changes neither index nor the
\* length nor the storage.
C19_Fused == [](C19_Counted) /\ [][C19_StaysExhausted]_vars

\* An iterator exhausted from both ends on which next_back yields nothing.
C19_Witness ==
    /\ phase = "iter" /\ Len(moved) >= 2
    /\ index = len /\ index >= 1 /\ len < Len(moved)
    /\ last.op = "next_back" /\ last.res = "None"

\* C20 as stated: every call of set_len with a length <= capacity() passes
\* the debug assertion, so no operation trips it, and in every variant a
\* push onto a vector that is not full succeeds, the N-th one leaving
\* is_full() true.
C20_SetLenAccepts ==
    /\ \A k \in 1..Len(last.trace) :
          (last.trace[k].ev = "assert_failed" /\ last.trace[k].a = InSetLen)
              => last.trace[k].b > N
    /\ (last.op \in {"push", "try_push"} /\ last.pre.len < N) =>
          /\ last.res \in {"unit", "Ok"}
          /\ len = last.pre.len + 1
          /\ len = N => is_full(Cur)

\* The number of events of one kind among the first k - 1 events of t.
Before(t, k, kind) == Cardinality({j \in 1..(k - 1) : t[j].ev = kind})

\* At every pull of the source the length is the old length plus the
\* number of slots written so far and every write has been counted; every
\* write goes to the slot at the current length and is followed at once by
\* the increment of the length.
C21_Counted ==
    last.op \in {"extend", "from_iter"} =>
        LET t == last.trace
            base == IF last.op = "extend" THEN last.pre.len ELSE 0 IN
        \A k \in 1..Len(t) :
            /\ t[k].ev \in {"next", "next_panic"} =>
                  /\ t[k].c = base + Before(t, k, "write")
                  /\ Before(t, k, "len") = Before(t, k, "write")
            /\ t[k].ev = "write" =>
                  /\ t[k].a = base + Before(t, k, "write")
                  /\ t[k].c = t[k].a
                  /\ k < Len(t)
                  /\ t[k + 1].ev = "len" /\ t[k + 1].a = t[k].a + 1

\* After a source that panicked, extend leaves a vector whose length is the
\* old length plus the number of slots written, with the old elements
\* unchanged, the written items behind them and every slot [0, len) live;
\* from_iter has dropped its local vector, destroying exactly the written
\* items, each once.
C21_AfterFailure ==
    (last.op \in {"extend", "from_iter"} /\ SourcePanicked) =>
        LET w == Events("write") IN
        /\ last.res = "panic" /\ ~ub
        /\ last.op = "extend" =>
              /\ len = last.pre.len + Len(w)
              /\ \A i \in 0..(len - 1) : Live(i)
              /\ LiveSlice = PreSlice \o [j \in 1..Len(w) |-> w[j].b]
        /\ last.op = "from_iter" =>
              /\ phase = "dropped" /\ len = 0
              /\ DroppedExactly(last.trace, array, 0, Len(w))
              /\ \A j \in 1..Len(w) :
                    /\ array[j - 1] = w[j].b
                    /\ drops[w[j].b] = 1 /\ handed[w[j].b] = 0

\* The drop of a vector that an extend left after its source panicked
\* destroys exactly the slots [0, len), each once, and nothing else.
C21_DropAfterFailure ==
    (last.op = "extend" /\ SourcePanicked /\ phase = "vec"
        /\ last'.op = "drop") =>
        /\ DroppedExactly(last'.trace, array, 0, len)
        /\ \A v \in Ids :
              drops'[v] = drops[v]
                  + (IF \E i \in 0..(len - 1) : array[i] = v THEN 1 ELSE 0)
        /\ handed' = handed /\ ~ub'

\* C21: at every intermediate step of extend the length counts exactly the
\* slots written so far (it is incremented right after each write and
\* before the next pull), so that when a pull of the source panics the
\* slots [0, len) are all live and the drop of the vector destroys exactly
\* the elements written so far, each once.
C21_ExtendCounts ==
    [](C21_Counted /\ C21_AfterFailure) /\ [][C21_DropAfterFailure]_vars

\* An extend of a non-empty vector whose source panicked after at least
\* one item was written and while there was room for more.
C21_Witness ==
    /\ last.op = "extend" /\ SourcePanicked
    /\ last.pre.len >= 1 /\ len > last.pre.len /\ len < N

\* C22: every unchecked index or range [lo, hi) taken from the live-slice
\* view lies within the view, whose length is len() at the moment of the
\* access: lo <= hi <= len().
C22_UncheckedInView ==
    \A k \in 1..Len(last.trace) :
        last.trace[k].ev = "unchecked" =>
            /\ last.trace[k].a <= last.trace[k].b
            /\ last.trace[k].b <= last.trace[k].c

\* Every call of take(index) in the last operation found index < len() and
\* an initialised slot, no debug assertion of take failed, and when the
\* operation has returned the slot that was read lies outside the range a
\* drop destroys: [0, len) of a vector, [index, len) of an iterator.
C23_TakeInBounds ==
    \A k \in 1..Len(last.trace) :
        /\ last.trace[k].ev = "assert_failed" => last.trace[k].a # InTake
        /\ last.trace[k].ev = "take" =>
              /\ last.trace[k].a < last.trace[k].c
              /\ last.trace[k].b \in Ids
              /\ handed[last.trace[k].b] = 1
              /\ phase = "vec" => last.trace[k].a >= len
              /\ phase = "iter" =>
                    last.trace[k].a < index \/ last.trace[k].a >= len

\* No slot of the range that a drop destroys holds a value that was read
\* out and handed to the caller.
C23_TakenStayExcluded ==
    \A v \in Ids : handed[v] >= 1 => v \notin Owned

\* No destructor that an operation runs is that of a value that was read
\* out before.
C23_DropSparesTaken ==
    \A k \in 1..Len(last'.trace) :
        (last'.trace[k].ev = "drop" /\ last'.trace[k].b \in Ids) =>
            handed[last'.trace[k].b] = 0 /\ handed'[last'.trace[k].b] = 0

\* C23: take(index) is only called with index < len() at the moment of the
\* call (from pop, IntoIter::next and IntoIter::next_back), and after each
\* call the slot that was read is outside the range that any later drop
\* destroys.
C23_TakeSafe ==
    [](C23_TakeInBounds /\ C23_TakenStayExcluded)
        /\ [][C23_DropSparesTaken]_vars

\* The iterator of lib.rs is dropped after take read a slot at the front
\* and a slot at the back, and the drop destroys what is left between.
C23_Witness ==
    /\ variant = "lib" /\ last.op = "drop_iter"
    /\ last.pre.index >= 1 /\ last.pre.len < Len(moved)
    /\ Events("drop") # <<>>
    /\ \E v \in Range(moved) : handed[v] = 1

====
